---- MODULE Spec2Model ----
(***************************************************************************)
(* A model of src/concurrent_hash_map/base.rs: the lazily created table,   *)
(* the control word size_ctl, try_presize and transfer, the sharded        *)
(* counter (add_count, full_add_count, sum_count, size) and the map        *)
(* operations get and insert.                                              *)
(*                                                                         *)
(* Machine words.  usize and isize are 64 bits wide on the modelled        *)
(* target.  A word is the set of the positions of its one-bits, so that    *)
(* shifts, or, and two's complement addition are computed bit for bit.     *)
(* The counters of the counting part stay far from the word's limits       *)
(* within the bounds below and are plain integers.                         *)
(***************************************************************************)
EXTENDS Integers, Sequences, FiniteSets, TLC

\* ------------------------------------------------------------------ bounds

\* Threads that operate on the map.
NThreads == 2
\* Calls one thread makes (table part and map part).
MaxOps == 2
\* Tables the memory can hold; one more allocation fails.
MaxTables == 3
\* Threads of the counting part, and the add_count and size calls they make
\* in all.
NCountThreads == 3
MaxCalls == 3
\* Keys and values of the map part.
NKeys == 2
NVals == 2

Threads == 1..NThreads
CountThreads == 1..NCountThreads
\* every thread of some part
AllThreads == 1..(IF NThreads > NCountThreads THEN NThreads ELSE NCountThreads)
\* the deltas add_count is called with
Deltas == {-1, 1}
Keys == 1..NKeys
Vals == 1..NVals

\* ------------------------------------------------------------ machine words

\* isize::BITS, usize::BITS
WordBits == 64
BitIdx == 0..(WordBits - 1)

RECURSIVE Pow2(_)
Pow2(k) == IF k = 0 THEN 1 ELSE 2 * Pow2(k - 1)

\* The word of a natural number below 2^31.
Bits(n) == {i \in 0..30 : (n \div Pow2(i)) % 2 = 1}

RECURSIVE Val(_)
\* The natural number of a word below 2^31.
Val(w) == IF w = {} THEN 0
          ELSE LET i == CHOOSE j \in w : TRUE IN Pow2(i) + Val(w \ {i})

RECURSIVE SumRange(_, _, _)
\* f[lo] + ... + f[hi]
SumRange(f, lo, hi) ==
    IF lo > hi THEN 0
    ELSE IF lo = hi THEN f[lo]
    ELSE LET mid == (lo + hi) \div 2
         IN  SumRange(f, lo, mid) + SumRange(f, mid + 1, hi)

\* A word is added in four limbs of sixteen bits.
LimbBits == WordBits \div 4
LimbPow == [i \in 0..LimbBits |-> Pow2(i)]
\* bit i of limb k of word a, weighted
LimbBit(a, k, i) == IF (LimbBits * k + i) \in a THEN LimbPow[i] ELSE 0
RECURSIVE LimbFrom(_, _, _)
\* the bits i and above of limb k of word a, as a number
LimbFrom(a, k, i) ==
    IF i >= LimbBits THEN 0 ELSE LimbBit(a, k, i) + LimbFrom(a, k, i + 1)
\* limb k of word a, as a number
Limb(a, k) == LimbFrom(a, k, 0)
\* the bits of limb k whose number is v (a carry above them is dropped)
LimbSet(v, k) ==
    {LimbBits * k + i : i \in {j \in 0..(LimbBits - 1) : (v \div LimbPow[j]) % 2 = 1}}

RECURSIVE AddFrom(_, _, _, _)
RECURSIVE AddLimb(_, _, _, _)
\* the limbs k and above of a + b + carry
AddFrom(a, b, k, carry) ==
    IF LimbBits * k >= WordBits THEN {}
    ELSE AddLimb(a, b, k, Limb(a, k) + Limb(b, k) + carry)
\* limb k of the sum, its number with the carry being s, and the limbs above
AddLimb(a, b, k, s) ==
    LimbSet(s, k) \cup AddFrom(a, b, k + 1, s \div LimbPow[LimbBits])

\* a + b + cin, wrapping at the word's width.
AddC(a, b, cin) == AddFrom(a, b, 0, IF cin THEN 1 ELSE 0)

WNot(a) == BitIdx \ a
WAdd(a, b) == AddC(a, b, FALSE)
WSub(a, b) == AddC(a, WNot(b), TRUE)
WOr(a, b) == a \cup b
WAnd(a, b) == a \cap b
WXor(a, b) == (a \ b) \cup (b \ a)
Shl(a, k) == {i + k : i \in {j \in a : j + k < WordBits}}
\* >> of an unsigned word
Shr(a, k) == {i - k : i \in {j \in a : j >= k}}
\* >> of a signed word
Sar(a, k) ==
    Shr(a, k) \cup (IF (WordBits - 1) \in a
                    THEN (WordBits - k)..(WordBits - 1) ELSE {})
IsNeg(a) == (WordBits - 1) \in a
\* unsigned a < b
ULt(a, b) == \E k \in b \ a : \A j \in a \ b : j < k
ULe(a, b) == a = b \/ ULt(a, b)
\* signed a < b
SLt(a, b) == IF IsNeg(a) # IsNeg(b) THEN IsNeg(a) ELSE ULt(a, b)
SLe(a, b) == a = b \/ SLt(a, b)

W0 == {}
W1 == {0}
WMinus1 == BitIdx
\* isize::MAX
ISIZE_MAX == BitIdx \ {WordBits - 1}

\* ---------------------------------------------------------------- constants

MAXIMUM_CAPACITY == Shl(W1, WordBits - 2)
DEFAULT_CAPACITY == 16
MIN_TRANSFER_STRIDE == 16
RESIZE_STAMP_BITS == 16
RESIZE_STAMP_SHIFT == WordBits - RESIZE_STAMP_BITS
MAX_RESIZERS == WSub(Shl(W1, WordBits - RESIZE_STAMP_BITS), W1)
\* thread::available_parallelism() as new() stores it
NCPU == 2

\* ----------------------------------------------------------- pure functions

\* n |= n >> k
OrShr(n, k) == WOr(n, Shr(n, k))

\* n + 1, or MAXIMUM_CAPACITY when n reaches it
CapOrNext(n) ==
    IF ~ULt(n, MAXIMUM_CAPACITY) THEN MAXIMUM_CAPACITY ELSE WAdd(n, W1)

table_size_for(c) ==
    CapOrNext(OrShr(OrShr(OrShr(OrShr(OrShr(WSub(c, W1), 1), 2), 4), 8), 16))

\* if i >> sh == 0 { n += k; i <<= k }
NlzStep(st, k, sh) ==
    IF Sar(st.i, sh) = W0 THEN [n |-> st.n + k, i |-> Shl(st.i, k)] ELSE st

\* n -= i >> 31
NlzEnd(st) == WSub(Bits(st.n), Sar(st.i, 31))

number_of_leading_zeros(i0) ==
    IF i0 = W0 THEN Bits(32)
    ELSE NlzEnd(NlzStep(NlzStep(NlzStep(NlzStep([n |-> 1, i |-> i0],
                                                16, 16), 8, 24), 4, 28), 2, 30))

resize_stamp(n) ==
    WOr(number_of_leading_zeros(n), Shl(W1, RESIZE_STAMP_BITS - 1))

\* n - (n >> 2), the threshold stored with a new table
InitThreshold(n) == WSub(n, Shr(n, 2))

RECURSIVE Pow2Mod(_, _)
\* 2^e mod d
Pow2Mod(e, d) ==
    IF e = 0 THEN 1 % d
    ELSE IF e % 2 = 0 THEN (Pow2Mod(e \div 2, d) * Pow2Mod(e \div 2, d)) % d
    ELSE (2 * Pow2Mod(e - 1, d)) % d

\* a / d for an unsigned word a and a small positive integer d, by long
\* division: rem(k) is (a >> k) mod d.
WDivSmall(a, d) ==
    LET rem(k) ==
            SumRange([j \in BitIdx |->
                         IF j \in a /\ j >= k THEN Pow2Mod(j - k, d) ELSE 0],
                     0, WordBits - 1) % d
    IN  {k \in BitIdx : 2 * rem(k + 1) + (IF k \in a THEN 1 ELSE 0) >= d}

\* the stride of transfer for a table of length n
Stride(n) ==
    LET s == IF NCPU > 1 THEN WDivSmall(Shr(n, 3), NCPU) ELSE n
    IN  IF SLt(s, Bits(MIN_TRANSFER_STRIDE)) THEN Bits(MIN_TRANSFER_STRIDE) ELSE s

\* the capacity try_presize aims at
PresizeTarget(size) ==
    IF ~ULt(size, Shr(MAXIMUM_CAPACITY, 1)) THEN MAXIMUM_CAPACITY
    ELSE table_size_for(WAdd(WAdd(size, Shr(size, 1)), W1))

\* the control word taken for the length, whatever it is
InitTableLenCtl(sc) == sc

\* the length of the table init_table creates when it read sc
InitTableLen(sc) == IF SLt(W0, sc) THEN sc ELSE Bits(DEFAULT_CAPACITY)

\* the length of the table try_presize creates on a null table
PresizeTableLen(sc, c) == IF ULt(c, sc) THEN sc ELSE c

\* the length of the next table transfer creates for a table of length n:
\* Vec::with_capacity(n << 1) followed by resize_with(n, ..)
NextTableLen(n) == n

\* the stamp not shifted to the high bits
ResizeCtlNoShift(rs) == WAdd(rs, Bits(2))

\* the stamp with the count of one resizer less
ResizeCtlOne(rs) == WAdd(Shl(rs, RESIZE_STAMP_SHIFT), W1)

\* the control word a resize of a table with stamp rs starts with
ResizeCtl(rs) == WAdd(Shl(rs, RESIZE_STAMP_SHIFT), Bits(2))

\* the control word stored when the resize of a table of length n commits
CommitCtl(n) == WSub(Shl(n, 1), Sar(n, 1))

\* the control word read before the resize
TransferFailCtlBack(sc) == sc

\* the control word stored when the next table cannot be allocated
TransferFailCtl(sc) == ISIZE_MAX

\* the control word left at -1
InitFailCtlLocked(sc) == WMinus1

\* the control word stored when the first table cannot be allocated
InitFailCtl(sc) == sc

\* ------------------------------------------------------------------- inputs

\* the sizes try_presize is called with: 10 (a table of 16 is asked for),
\* 12 (of 32) and 2863311531 = 0xAAAAAAAB, for which
\* size + (size >> 1) + 1 is 2^32 + 1
Sizes == {Bits(10), Bits(12), {0} \cup {i \in 1..31 : i % 2 = 1}}

\* c of try_presize, for each of them
PresizeTargets == [size \in Sizes |-> PresizeTarget(size)]

\* What the operations compute from a table's length n: the threshold
\* n - (n >> 2), the stamp, the control word a resize starts with and the one
\* it commits with.  They are tabulated once for the lengths a first table
\* can have and computed for any other length.
LenFacts(n) ==
    [threshold |-> InitThreshold(n),
     rs        |-> resize_stamp(n),
     start     |-> ResizeCtl(resize_stamp(n)),
     commit    |-> CommitCtl(n)]
KnownLens == {Bits(DEFAULT_CAPACITY)} \cup {PresizeTargets[z] : z \in Sizes}
LenTab == [n \in KnownLens |-> LenFacts(n)]
ForLen(n) == IF n \in KnownLens THEN LenTab[n] ELSE LenFacts(n)

\* -------------------------------------------------------------------- state

\* the null pointer of table, next_table and of a thread's tab
Null == 0

VARIABLES
    table,           \* ConcurrentHashMap::table: a table's number, or Null
    next_table,      \* ConcurrentHashMap::next_table
    size_ctl,        \* ConcurrentHashMap::size_ctl, a word
    transfer_index,  \* ConcurrentHashMap::transfer_index, a word
    tabs,            \* the tables allocated so far, by number: the length and
                     \* the indices of the bins that hold a ForwardingNode
                     \* (every other bin is null: nothing ever fills a bin)
    base_count,      \* ConcurrentHashMap::base_count
    cells_busy,      \* ConcurrentHashMap::cells_busy
    counter_cells,   \* ConcurrentHashMap::counter_cells: NoCells or the cells
    pc,              \* where each thread is in its call
    op,              \* the operation each thread runs or ran last
    ops,             \* the calls each thread has made
    loc,             \* the locals of init_table, try_presize and transfer
    cloc,            \* the locals of add_count, full_add_count and sum_count
    ret,             \* what each thread's last call returned
    fault,           \* why each thread's last call panicked, or "none"
    arg,             \* the key and the value of each thread's get or insert
    thash,           \* the hash of each thread's id, as far as a cell index
                     \* depends on it
    hist,            \* history: what has happened so far
    fin,             \* the argument a function is applied to on its own
    fout,            \* what its applications returned, in their order
    fop              \* the function applied, "none" before, "panic" when
                     \* the application panicked

vars == <<table, next_table, size_ctl, transfer_index, tabs, base_count,
          cells_busy, counter_cells, pc, op, ops, loc, cloc, ret, fault, arg,
          thash, hist, fin, fout, fop>>

tableVars == <<table, next_table, size_ctl, transfer_index, tabs>>
countVars == <<base_count, cells_busy, counter_cells>>
fnVars == <<fin, fout, fop>>

NoCells == <<>>

Loc0 == [size |-> W0, c |-> W0, sc |-> W0, tab |-> Null, n |-> W0,
         rs |-> W0, nt |-> Null, nextn |-> W0, i |-> W0,
         bound |-> W0, advance |-> FALSE, finishing |-> FALSE, pre |-> W0]

\* lo: history, the sum of the deltas applied by the add_count calls that had
\* returned when the size call started
CLoc0 == [x |-> 0, b |-> 0, seen |-> FALSE, sum |-> 0, k |-> 0,
          failed |-> FALSE, stale |-> FALSE, lo |-> 0]

Arg0 == [k |-> 0, v |-> 0]

\* firstTab, firstBy: the first table published and the operation that
\* published it; firstCtl: the control word that operation's compare_exchange
\* replaced by -1; firstC: its c, when it is try_presize; pub: the tables
\* published so far; created: the first tables published; commits: the resizes
\* committed; applied: the sum of the deltas of the add_count calls that
\* returned; started: the sum of the deltas of the add_count calls made;
\* installs: the cell arrays installed; lastIns: per key the value
\* of the last insert called (0: none)
Hist0 == [firstTab |-> Null, firstBy |-> "none", firstCtl |-> W0,
          firstC |-> W0, pub |-> {}, created |-> 0,
          commits |-> 0, applied |-> 0, started |-> 0, installs |-> 0,
          lastIns |-> [k \in Keys |-> 0]]

\* a thread between two calls
Rest(t) == pc[t] \in {"idle", "done", "panic"}

\* thread t starts a call of operation o
Begin(t, o, first) ==
    /\ Rest(t)
    /\ ops[t] < MaxOps
    /\ pc' = [pc EXCEPT ![t] = first]
    /\ op' = [op EXCEPT ![t] = o]
    /\ ops' = [ops EXCEPT ![t] = @ + 1]
    /\ ret' = [ret EXCEPT ![t] = 0]
    /\ fault' = [fault EXCEPT ![t] = "none"]

\* thread t moves to p with locals l
Goto(t, p, l) ==
    /\ pc' = [pc EXCEPT ![t] = p]
    /\ loc' = [loc EXCEPT ![t] = l]

\* thread t's call returns r
Return(t, r) ==
    /\ pc' = [pc EXCEPT ![t] = "done"]
    /\ loc' = [loc EXCEPT ![t] = Loc0]
    /\ ret' = [ret EXCEPT ![t] = r]

\* thread t's call panics
Panic(t, why) ==
    /\ pc' = [pc EXCEPT ![t] = "panic"]
    /\ loc' = [loc EXCEPT ![t] = Loc0]
    /\ fault' = [fault EXCEPT ![t] = why]

\* a table of length n: fwd, the buckets that hold a forwarding node; claims,
\* the strides <<bound, index>> handed out from transfer_index, in their order
NewTable(n) == [len |-> n, fwd |-> {}, claims |-> <<>>]

\* --------------------------------------------------------------- init_table

InitTableCall(t) ==
    /\ Begin(t, "init_table", "it_load")
    /\ loc' = [loc EXCEPT ![t] = Loc0]
    /\ UNCHANGED <<tableVars, countVars, cloc, arg, thash, fnVars, hist>>

\* self.table.load: return the table when there is one
ItLoad(t) ==
    /\ pc[t] = "it_load"
    /\ IF table # Null
       THEN Return(t, table) /\ UNCHANGED <<fault>>
       ELSE Goto(t, "it_sc", loc[t]) /\ UNCHANGED <<ret, fault>>
    /\ UNCHANGED <<tableVars, countVars, op, ops, cloc, arg, thash, fnVars, hist>>

\* self.size_ctl.load: spin while it is negative
ItLoadCtl(t) ==
    /\ pc[t] = "it_sc"
    /\ Goto(t, IF IsNeg(size_ctl) THEN "it_load" ELSE "it_cas",
            [loc[t] EXCEPT !.sc = size_ctl])
    /\ UNCHANGED <<tableVars, countVars, op, ops, cloc, ret, fault, arg, thash, fnVars, hist>>

\* size_ctl.compare_exchange(sc, -1)
ItCas(t) ==
    /\ pc[t] = "it_cas"
    /\ IF size_ctl = loc[t].sc
       THEN /\ size_ctl' = WMinus1
            /\ Goto(t, "it_recheck", [loc[t] EXCEPT !.pre = size_ctl])
       ELSE /\ size_ctl' = size_ctl
            /\ Goto(t, "it_load", loc[t])
    /\ UNCHANGED <<table, next_table, transfer_index, tabs, countVars, op, ops,
                   cloc, ret, fault, arg, thash, fnVars, hist>>

\* the second self.table.load, under the control word: when the table is
\* there by now the code goes round the loop and stores nothing to size_ctl
ItRecheck(t) ==
    /\ pc[t] = "it_recheck"
    /\ IF table = Null
       THEN Goto(t, "it_alloc", [loc[t] EXCEPT !.n = InitTableLen(loc[t].sc)])
       ELSE Goto(t, "it_load", loc[t])
    /\ UNCHANGED <<tableVars, countVars, op, ops, cloc, ret, fault, arg, thash, fnVars, hist>>

\* new_tab(n) is Ok: self.table.store(v)
ItAllocOk(t) ==
    /\ pc[t] = "it_alloc"
    /\ Len(tabs) < MaxTables
    /\ tabs' = Append(tabs, NewTable(loc[t].n))
    /\ table' = Len(tabs) + 1
    /\ hist' = [hist EXCEPT !.firstTab = IF @ = Null THEN Len(tabs) + 1 ELSE @,
                            !.firstBy = IF hist.firstTab = Null THEN "init_table" ELSE @,
                            !.firstCtl = IF hist.firstTab = Null THEN loc[t].pre ELSE @,
                            !.pub = @ \cup {Len(tabs) + 1},
                            !.created = @ + 1]
    /\ Goto(t, "it_store", loc[t])
    /\ UNCHANGED <<next_table, size_ctl, transfer_index, countVars, op, ops,
                   cloc, ret, fault, arg, thash, fnVars>>

\* new_tab(n) is Err: self.size_ctl.store(sc), resume_unwind
ItAllocFail(t) ==
    /\ pc[t] = "it_alloc"
    /\ size_ctl' = InitFailCtl(loc[t].sc)
    /\ Panic(t, "alloc")
    /\ UNCHANGED <<table, next_table, transfer_index, tabs, countVars, op, ops,
                   cloc, ret, arg, thash, fnVars, hist>>

\* self.size_ctl.store(n - (n >> 2))
ItStore(t) ==
    /\ pc[t] = "it_store"
    /\ size_ctl' = ForLen(loc[t].n).threshold
    /\ Goto(t, "it_ret", loc[t])
    /\ UNCHANGED <<table, next_table, transfer_index, tabs, countVars, op, ops,
                   cloc, ret, fault, arg, thash, fnVars, hist>>

\* return self.table.load
ItRet(t) ==
    /\ pc[t] = "it_ret"
    /\ Return(t, table)
    /\ UNCHANGED <<tableVars, countVars, op, ops, cloc, fault, arg, thash, fnVars, hist>>

\* -------------------------------------------------------------- try_presize

\* the locals of try_presize that live across a call of transfer
PresizeLocals(l) == [Loc0 EXCEPT !.size = l.size, !.c = l.c]

TryPresizeCall(t, size) ==
    /\ Begin(t, "try_presize", "tp_loop")
    /\ loc' = [loc EXCEPT ![t] = [Loc0 EXCEPT !.size = size,
                                              !.c = PresizeTargets[size]]]
    /\ UNCHANGED <<tableVars, countVars, cloc, arg, thash, fnVars, hist>>

\* the head of the loop: sc = size_ctl.load, leave when sc < 0
TpLoop(t) ==
    /\ pc[t] = "tp_loop"
    /\ IF IsNeg(size_ctl)
       THEN Return(t, 0) /\ UNCHANGED <<fault>>
       ELSE Goto(t, "tp_tab", [loc[t] EXCEPT !.sc = size_ctl])
            /\ UNCHANGED <<ret, fault>>
    /\ UNCHANGED <<tableVars, countVars, op, ops, cloc, arg, thash, fnVars, hist>>

\* the locals transfer starts its loop with
TransferLoopEntry(l, nt, nextn) ==
    [l EXCEPT !.nt = nt, !.nextn = nextn, !.advance = TRUE,
              !.finishing = TRUE, !.i = W0, !.bound = W0]

\* The table is there and c > sc: n = tab.len(), rs = resize_stamp(n) and
\* what follows.  The branch for sc < 0 (joining a resize) cannot be taken,
\* the loop being left when sc < 0; it is written as the code has it, as one
\* step.
TpResizeStep(l, n, rs) ==
    IF ULt(MAXIMUM_CAPACITY, n)
    THEN [p |-> "done", ctl |-> size_ctl, l |-> l]
    ELSE IF IsNeg(l.sc)
    THEN IF \/ Sar(l.sc, RESIZE_STAMP_SHIFT) # rs
            \/ l.sc = WAdd(rs, W1)
            \/ l.sc = WAdd(rs, MAX_RESIZERS)
         THEN IF next_table = Null \/ SLe(transfer_index, W0)
              THEN [p |-> "done", ctl |-> size_ctl, l |-> l]
              ELSE IF size_ctl = l.sc
              THEN [p |-> "tr_loop", ctl |-> WAdd(l.sc, W1),
                    l |-> TransferLoopEntry(
                              [l EXCEPT !.tab = table, !.n = n, !.rs = rs],
                              next_table, tabs[next_table].len)]
              ELSE [p |-> "tp_loop", ctl |-> size_ctl, l |-> l]
         ELSE [p |-> "tp_loop", ctl |-> size_ctl, l |-> l]
    ELSE [p |-> "tp_cas_resize", ctl |-> size_ctl,
          l |-> [l EXCEPT !.tab = table, !.n = n, !.rs = rs]]

\* tab = table.load and what follows up to the next access to shared memory
TpTabStep(l) ==
    IF table = Null
    THEN [p |-> "tp_cas_init", ctl |-> size_ctl,
          l |-> [l EXCEPT !.tab = Null, !.n = PresizeTableLen(l.sc, l.c)]]
    ELSE IF ULe(l.c, l.sc)
    THEN [p |-> "done", ctl |-> size_ctl, l |-> l]
    ELSE TpResizeStep(l, tabs[table].len, ForLen(tabs[table].len).rs)

\* the step of thread t at tp_tab, r being what TpTabStep makes of it
TpTabTake(t, r) ==
    /\ size_ctl' = r.ctl
    /\ IF r.p = "done"
       THEN Return(t, 0) /\ UNCHANGED <<fault>>
       ELSE Goto(t, r.p, r.l) /\ UNCHANGED <<ret, fault>>

TpTab(t) ==
    /\ pc[t] = "tp_tab"
    /\ TpTabTake(t, TpTabStep(loc[t]))
    /\ UNCHANGED <<table, next_table, transfer_index, tabs, countVars, op, ops,
                   cloc, arg, thash, fnVars, hist>>

\* size_ctl.compare_exchange(sc, -1) on a null table
TpCasInit(t) ==
    /\ pc[t] = "tp_cas_init"
    /\ IF size_ctl = loc[t].sc
       THEN /\ size_ctl' = WMinus1
            /\ Goto(t, "tp_recheck", [loc[t] EXCEPT !.pre = size_ctl])
       ELSE /\ size_ctl' = size_ctl
            /\ Goto(t, "tp_loop", loc[t])
    /\ UNCHANGED <<table, next_table, transfer_index, tabs, countVars, op, ops,
                   cloc, ret, fault, arg, thash, fnVars, hist>>

\* table.load == tab, under the control word
TpRecheck(t) ==
    /\ pc[t] = "tp_recheck"
    /\ Goto(t, IF table = loc[t].tab THEN "tp_alloc" ELSE "tp_loop", loc[t])
    /\ UNCHANGED <<tableVars, countVars, op, ops, cloc, ret, fault, arg, thash, fnVars, hist>>

\* new_tab(n) is Ok: table.store(tab)
TpAllocOk(t) ==
    /\ pc[t] = "tp_alloc"
    /\ Len(tabs) < MaxTables
    /\ tabs' = Append(tabs, NewTable(loc[t].n))
    /\ table' = Len(tabs) + 1
    /\ hist' = [hist EXCEPT !.firstTab = IF @ = Null THEN Len(tabs) + 1 ELSE @,
                            !.firstBy = IF hist.firstTab = Null THEN "try_presize" ELSE @,
                            !.firstCtl = IF hist.firstTab = Null THEN loc[t].pre ELSE @,
                            !.firstC = IF hist.firstTab = Null THEN loc[t].c ELSE @,
                            !.pub = @ \cup {Len(tabs) + 1},
                            !.created = @ + 1]
    /\ Goto(t, "tp_store", loc[t])
    /\ UNCHANGED <<next_table, size_ctl, transfer_index, countVars, op, ops,
                   cloc, ret, fault, arg, thash, fnVars>>

\* new_tab(n) is Err: size_ctl.store(sc), resume_unwind
TpAllocFail(t) ==
    /\ pc[t] = "tp_alloc"
    /\ size_ctl' = InitFailCtl(loc[t].sc)
    /\ Panic(t, "alloc")
    /\ UNCHANGED <<table, next_table, transfer_index, tabs, countVars, op, ops,
                   cloc, ret, arg, thash, fnVars, hist>>

\* sc = n - (n >> 2); size_ctl.store(sc); break
TpStore(t) ==
    /\ pc[t] = "tp_store"
    /\ size_ctl' = ForLen(loc[t].n).threshold
    /\ Return(t, 0)
    /\ UNCHANGED <<table, next_table, transfer_index, tabs, countVars, op, ops,
                   cloc, fault, arg, thash, fnVars, hist>>

\* size_ctl.compare_exchange(sc, (rs << RESIZE_STAMP_SHIFT) + 2), and
\* transfer(tab, None) when it succeeds
TpCasResize(t) ==
    /\ pc[t] = "tp_cas_resize"
    /\ IF size_ctl = loc[t].sc
       THEN /\ size_ctl' = ForLen(loc[t].n).start
            /\ Goto(t, "tr_alloc", [loc[t] EXCEPT !.pre = size_ctl])
       ELSE /\ size_ctl' = size_ctl
            /\ Goto(t, "tp_loop", loc[t])
    /\ UNCHANGED <<table, next_table, transfer_index, tabs, countVars, op, ops,
                   cloc, ret, fault, arg, thash, fnVars, hist>>

\* ----------------------------------------------------------------- transfer

\* the next table is allocated: next_table.store(nt)
TrAllocOk(t) ==
    /\ pc[t] = "tr_alloc"
    /\ Len(tabs) < MaxTables
    /\ tabs' = Append(tabs, NewTable(NextTableLen(loc[t].n)))
    /\ next_table' = Len(tabs) + 1
    /\ Goto(t, "tr_loop",
            TransferLoopEntry(loc[t], Len(tabs) + 1, NextTableLen(loc[t].n)))
    /\ UNCHANGED <<table, size_ctl, transfer_index, countVars, op, ops, cloc,
                   ret, fault, arg, thash, fnVars, hist>>

\* the allocation panics: size_ctl.store(isize::MAX), resume_unwind
TrAllocFail(t) ==
    /\ pc[t] = "tr_alloc"
    /\ size_ctl' = TransferFailCtl(loc[t].sc)
    /\ Panic(t, "alloc")
    /\ UNCHANGED <<table, next_table, transfer_index, tabs, countVars, op, ops,
                   cloc, ret, arg, thash, fnVars, hist>>

\* the locals after a stride is claimed from transfer_index ti
ClaimNext(l, ti, stride) ==
    [l EXCEPT !.bound = IF SLt(stride, ti) THEN WSub(ti, stride) ELSE W0,
              !.i = WSub(ti, W1), !.advance = FALSE]

\* while advance { .. }: one stride is claimed from transfer_index ti.  The
\* claim cannot be reached, finishing being true from the start; it is
\* written as the code has it, the load and the compare_exchange as one step.
ClaimStride(l, ti) ==
    IF ~l.advance THEN [l |-> l, ti |-> ti]
    ELSE IF SLe(l.bound, WSub(l.i, W1)) \/ l.finishing
    THEN [l |-> [l EXCEPT !.i = WSub(l.i, W1), !.advance = FALSE], ti |-> ti]
    ELSE IF SLe(ti, W0)
    THEN [l |-> [l EXCEPT !.i = WMinus1, !.advance = FALSE], ti |-> ti]
    ELSE [l |-> ClaimNext(l, ti, Stride(l.n)),
          ti |-> ClaimNext(l, ti, Stride(l.n)).bound]

\* i < 0 || i >= n || i + n >= nextn
AtEnd(l) ==
    \/ SLt(l.i, W0)
    \/ SLe(l.n, l.i)
    \/ SLe(l.nextn, WAdd(l.i, l.n))

\* One round of transfer's loop up to its next access to shared memory.
\* Only the way to the commit is ever taken: the first round finds i = -1
\* and finishing.  The other branches (leaving the resize to the last
\* helper, forwarding bin i) are written as the code has them.
TrLoopRound(l, ti) ==
    IF AtEnd(l)
    THEN IF l.finishing
         THEN [p |-> "tr_commit1", l |-> l, ti |-> ti, ctl |-> size_ctl,
               tabs |-> tabs]
         ELSE IF WSub(size_ctl, Bits(2)) # Shl(resize_stamp(l.n), RESIZE_STAMP_SHIFT)
         THEN [p |-> "tp_loop", l |-> PresizeLocals(l), ti |-> ti,
               ctl |-> WSub(size_ctl, W1), tabs |-> tabs]
         ELSE [p |-> "tr_loop",
               l |-> [l EXCEPT !.advance = TRUE, !.finishing = TRUE, !.i = l.n],
               ti |-> ti, ctl |-> WSub(size_ctl, W1), tabs |-> tabs]
    ELSE [p |-> "tr_loop", l |-> [l EXCEPT !.advance = TRUE], ti |-> ti,
          ctl |-> size_ctl,
          tabs |-> [tabs EXCEPT ![l.tab].fwd = @ \cup {l.i}]]

\* the round after the claim a
TrLoopAfter(a) == TrLoopRound(a.l, a.ti)

\* one round of the loop for locals l0
TrLoopStep(l0) == TrLoopAfter(ClaimStride(l0, transfer_index))

\* the step of thread t at tr_loop, r being what TrLoopStep makes of it
TrLoopTake(t, r) ==
    /\ Goto(t, r.p, r.l)
    /\ transfer_index' = r.ti
    /\ size_ctl' = r.ctl
    /\ tabs' = IF r.ti = transfer_index
               THEN r.tabs
               ELSE [r.tabs EXCEPT ![r.l.tab].claims =
                                        Append(@, <<r.ti, transfer_index>>)]

TrLoop(t) ==
    /\ pc[t] = "tr_loop"
    /\ TrLoopTake(t, TrLoopStep(loc[t]))
    /\ UNCHANGED <<table, next_table, countVars, op, ops, cloc, ret, fault, arg, thash, fnVars, hist>>

\* the commit: next_table.swap(null)
TrCommit1(t) ==
    /\ pc[t] = "tr_commit1"
    /\ next_table' = Null
    /\ Goto(t, "tr_commit2", loc[t])
    /\ UNCHANGED <<table, size_ctl, transfer_index, tabs, countVars, op, ops,
                   cloc, ret, fault, arg, thash, fnVars, hist>>

\* self.table.swap(next_tab)
TrCommit2(t) ==
    /\ pc[t] = "tr_commit2"
    /\ table' = loc[t].nt
    /\ hist' = [hist EXCEPT !.commits = @ + 1, !.pub = @ \cup {loc[t].nt}]
    /\ Goto(t, "tr_commit3", loc[t])
    /\ UNCHANGED <<next_table, size_ctl, transfer_index, tabs, countVars, op,
                   ops, cloc, ret, fault, arg, thash, fnVars>>

\* size_ctl.store((n << 1) - (n >> 1)); return to try_presize's loop
TrCommit3(t) ==
    /\ pc[t] = "tr_commit3"
    /\ size_ctl' = ForLen(loc[t].n).commit
    /\ Goto(t, "tp_loop", PresizeLocals(loc[t]))
    /\ UNCHANGED <<table, next_table, transfer_index, tabs, countVars, op, ops,
                   cloc, ret, fault, arg, thash, fnVars, hist>>

\* ----------------------------------------------- add_count, full_add_count

\* the length of the cell array: table_size_for(NCPU)
CellsLen == Val(table_size_for(Bits(NCPU)))

\* a cell array that leaves the delta out
NewCellsEmpty(x) == [i \in 1..CellsLen |-> 0]

\* the cell array full_add_count installs for delta x: x in slot 0, 0 in the
\* other slots (the cells are numbered from 1 here)
NewCells(x) == [i \in 1..CellsLen |-> IF i = 1 THEN x ELSE 0]

\* the cell of hash h in an array of n cells, h & (n - 1), n being a power of
\* two
CellOf(h, n) == (h % n) + 1

\* base_count plus every cell
RawSum == base_count + SumRange(counter_cells, 1, Len(counter_cells))

\* the calls made so far in the counting part
CallsMade == SumRange(ops, 1, NCountThreads)

\* thread t starts a call of operation o of the counting part
BeginCount(t, o, first) ==
    /\ Rest(t)
    /\ CallsMade < MaxCalls
    /\ pc' = [pc EXCEPT ![t] = first]
    /\ op' = [op EXCEPT ![t] = o]
    /\ ops' = [ops EXCEPT ![t] = @ + 1]
    /\ ret' = [ret EXCEPT ![t] = 0]
    /\ fault' = [fault EXCEPT ![t] = "none"]

\* History: a size call whose reads a write to the counter overlaps, or whose
\* result a write follows, is marked stale.
MarkStale(cl) ==
    [u \in AllThreads |->
        IF op[u] = "size" /\ pc[u] # "idle"
        THEN [cl[u] EXCEPT !.stale = TRUE] ELSE cl[u]]

\* thread t's add_count returns, its delta applied
Applied(t) ==
    /\ pc' = [pc EXCEPT ![t] = "done"]
    /\ cloc' = MarkStale([cloc EXCEPT ![t] = CLoc0])
    /\ hist' = [hist EXCEPT !.applied = @ + cloc[t].x]

\* a fetch_add that adds nothing
FetchAddNone(v, x) == v

\* the value a fetch_add of x leaves in a cell or in base_count
FetchAdd(v, x) == v + x

\* the cells after thread t's fetch_add of its delta
CellsAdded(t) ==
    [counter_cells EXCEPT ![CellOf(thash[t], Len(counter_cells))] =
        FetchAdd(@, cloc[t].x)]

AddCountCall(t, x) ==
    /\ BeginCount(t, "add_count", "ac_load")
    /\ cloc' = [cloc EXCEPT ![t] = [CLoc0 EXCEPT !.x = x]]
    /\ hist' = [hist EXCEPT !.started = @ + x]
    /\ UNCHANGED <<tableVars, countVars, loc, arg, thash, fnVars>>

\* cc = self.counter_cells.load
AcLoad(t) ==
    /\ pc[t] = "ac_load"
    /\ pc' = [pc EXCEPT ![t] = IF counter_cells = NoCells THEN "ac_base" ELSE "ac_cell"]
    /\ UNCHANGED <<tableVars, countVars, op, ops, loc, cloc, ret, fault, arg,
                   thash, fnVars, hist>>

\* b = self.base_count.load
AcBase(t) ==
    /\ pc[t] = "ac_base"
    /\ pc' = [pc EXCEPT ![t] = "ac_cas"]
    /\ cloc' = [cloc EXCEPT ![t].b = base_count]
    /\ UNCHANGED <<tableVars, countVars, op, ops, loc, ret, fault, arg, thash, fnVars,
                   hist>>

\* base_count.compare_exchange(b, b + x); full_add_count when it fails
AcCas(t) ==
    /\ pc[t] = "ac_cas"
    /\ IF base_count = cloc[t].b
       THEN /\ base_count' = cloc[t].b + cloc[t].x
            /\ Applied(t)
       ELSE /\ base_count' = base_count
            /\ pc' = [pc EXCEPT ![t] = "fa_load"]
            /\ UNCHANGED <<cloc, hist>>
    /\ UNCHANGED <<tableVars, cells_busy, counter_cells, op, ops, loc, ret,
                   fault, arg, thash, fnVars>>

\* the cells are there: cc[h & m].fetch_add(x).  With check > 1 the code then
\* calls sum_count and drops the result: reads that change nothing.
AcCell(t) ==
    /\ pc[t] = "ac_cell"
    /\ counter_cells' = CellsAdded(t)
    /\ Applied(t)
    /\ UNCHANGED <<tableVars, base_count, cells_busy, op, ops, loc, ret, fault,
                   arg, thash, fnVars>>

\* full_add_count: cc = counter_cells.load
FaLoad(t) ==
    /\ pc[t] = "fa_load"
    /\ pc' = [pc EXCEPT ![t] = IF counter_cells # NoCells THEN "fa_cell" ELSE "fa_busy"]
    /\ UNCHANGED <<tableVars, countVars, op, ops, loc, cloc, ret, fault, arg,
                   thash, fnVars, hist>>

\* the cells are there: fetch_add
FaCell(t) ==
    /\ pc[t] = "fa_cell"
    /\ counter_cells' = CellsAdded(t)
    /\ Applied(t)
    /\ UNCHANGED <<tableVars, base_count, cells_busy, op, ops, loc, ret, fault,
                   arg, thash, fnVars>>

\* cells_busy.load == 0
FaBusy(t) ==
    /\ pc[t] = "fa_busy"
    /\ pc' = [pc EXCEPT ![t] = IF cells_busy = 0 THEN "fa_lock" ELSE "fa_base"]
    /\ UNCHANGED <<tableVars, countVars, op, ops, loc, cloc, ret, fault, arg,
                   thash, fnVars, hist>>

\* cells_busy.compare_exchange(0, 1)
FaLock(t) ==
    /\ pc[t] = "fa_lock"
    /\ IF cells_busy = 0
       THEN cells_busy' = 1 /\ pc' = [pc EXCEPT ![t] = "fa_in"]
       ELSE cells_busy' = cells_busy /\ pc' = [pc EXCEPT ![t] = "fa_base"]
    /\ UNCHANGED <<tableVars, base_count, counter_cells, op, ops, loc, cloc,
                   ret, fault, arg, thash, fnVars, hist>>

\* under cells_busy: cc = counter_cells.load again
FaIn(t) ==
    /\ pc[t] = "fa_in"
    /\ pc' = [pc EXCEPT ![t] = IF counter_cells = NoCells THEN "fa_new" ELSE "fa_in_cell"]
    /\ UNCHANGED <<tableVars, countVars, op, ops, loc, cloc, ret, fault, arg,
                   thash, fnVars, hist>>

\* the array is built and counter_cells.store installs it
FaNewOk(t) ==
    /\ pc[t] = "fa_new"
    /\ counter_cells' = NewCells(cloc[t].x)
    /\ pc' = [pc EXCEPT ![t] = "fa_unlock"]
    /\ cloc' = MarkStale(cloc)
    /\ hist' = [hist EXCEPT !.installs = @ + 1]
    /\ UNCHANGED <<tableVars, base_count, cells_busy, op, ops, loc, ret, fault,
                   arg, thash, fnVars>>

\* building the array panics: catch_unwind keeps the panic for later
FaNewFail(t) ==
    /\ pc[t] = "fa_new"
    /\ pc' = [pc EXCEPT ![t] = "fa_unlock"]
    /\ cloc' = [cloc EXCEPT ![t].failed = TRUE]
    /\ UNCHANGED <<tableVars, countVars, op, ops, loc, ret, fault, arg, thash, fnVars,
                   hist>>

\* another thread installed the array meanwhile: fetch_add
FaInCell(t) ==
    /\ pc[t] = "fa_in_cell"
    /\ counter_cells' = CellsAdded(t)
    /\ pc' = [pc EXCEPT ![t] = "fa_unlock"]
    /\ cloc' = MarkStale(cloc)
    /\ UNCHANGED <<tableVars, base_count, cells_busy, op, ops, loc, ret, fault,
                   arg, thash, fnVars, hist>>

\* cells_busy.store(0), then resume_unwind when building the array panicked
FaUnlock(t) ==
    /\ pc[t] = "fa_unlock"
    /\ cells_busy' = 0
    /\ IF cloc[t].failed
       THEN /\ pc' = [pc EXCEPT ![t] = "panic"]
            /\ fault' = [fault EXCEPT ![t] = "alloc"]
            /\ cloc' = [cloc EXCEPT ![t] = CLoc0]
            /\ hist' = hist
       ELSE /\ pc' = [pc EXCEPT ![t] = "done"]
            /\ fault' = fault
            /\ cloc' = [cloc EXCEPT ![t] = CLoc0]
            /\ hist' = [hist EXCEPT !.applied = @ + cloc[t].x]
    /\ UNCHANGED <<tableVars, base_count, counter_cells, op, ops, loc, ret, arg,
                   thash, fnVars>>

\* cells_busy was taken: self.base_count.fetch_add(x)
FaBase(t) ==
    /\ pc[t] = "fa_base"
    /\ base_count' = FetchAdd(base_count, cloc[t].x)
    /\ Applied(t)
    /\ UNCHANGED <<tableVars, cells_busy, counter_cells, op, ops, loc, ret,
                   fault, arg, thash, fnVars>>

\* ---------------------------------------------------------- size, sum_count

\* the sum as it is
SizeOfUnclamped(n) == n

\* what size makes of sum_count's n
SizeOf(n) == IF n < 0 THEN 0 ELSE n

SizeCall(t) ==
    /\ BeginCount(t, "size", "sz_load")
    /\ cloc' = [cloc EXCEPT ![t] = [CLoc0 EXCEPT !.lo = hist.applied]]
    /\ UNCHANGED <<tableVars, countVars, loc, arg, thash, fnVars, hist>>

\* sum_count: cc = self.counter_cells.load
SzLoad(t) ==
    /\ pc[t] = "sz_load"
    /\ pc' = [pc EXCEPT ![t] = "sz_base"]
    /\ cloc' = [cloc EXCEPT ![t].seen = (counter_cells # NoCells)]
    /\ UNCHANGED <<tableVars, countVars, op, ops, loc, ret, fault, arg, thash, fnVars,
                   hist>>

\* sum = self.base_count.load; size returns when cc was null
SzBase(t) ==
    /\ pc[t] = "sz_base"
    /\ cloc' = [cloc EXCEPT ![t].sum = base_count, ![t].k = 1]
    /\ IF cloc[t].seen
       THEN pc' = [pc EXCEPT ![t] = "sz_cell"] /\ ret' = ret
       ELSE /\ pc' = [pc EXCEPT ![t] = "done"]
            /\ ret' = [ret EXCEPT ![t] = SizeOf(base_count)]
    /\ UNCHANGED <<tableVars, countVars, op, ops, loc, fault, arg, thash, fnVars, hist>>

\* sum += x.load for the next cell; size returns after the last one
SzCell(t) ==
    /\ pc[t] = "sz_cell"
    /\ LET sum == cloc[t].sum + counter_cells[cloc[t].k]
       IN  /\ cloc' = [cloc EXCEPT ![t].sum = sum, ![t].k = @ + 1]
           /\ IF cloc[t].k < Len(counter_cells)
              THEN pc' = pc /\ ret' = ret
              ELSE /\ pc' = [pc EXCEPT ![t] = "done"]
                   /\ ret' = [ret EXCEPT ![t] = SizeOf(sum)]
    /\ UNCHANGED <<tableVars, countVars, op, ops, loc, fault, arg, thash, fnVars, hist>>

\* -------------------------------------------------------------- get, insert

\* get is todo!(): the call panics
Get(t, k) ==
    /\ Rest(t)
    /\ ops[t] < MaxOps
    /\ pc' = [pc EXCEPT ![t] = "panic"]
    /\ op' = [op EXCEPT ![t] = "get"]
    /\ ops' = [ops EXCEPT ![t] = @ + 1]
    /\ ret' = [ret EXCEPT ![t] = 0]
    /\ fault' = [fault EXCEPT ![t] = "todo"]
    /\ arg' = [arg EXCEPT ![t] = [k |-> k, v |-> 0]]
    /\ UNCHANGED <<tableVars, countVars, loc, cloc, thash, fnVars, hist>>

\* insert calls insert_, which is todo!(): the call panics
Insert(t, k, v) ==
    /\ Rest(t)
    /\ ops[t] < MaxOps
    /\ pc' = [pc EXCEPT ![t] = "panic"]
    /\ op' = [op EXCEPT ![t] = "insert"]
    /\ ops' = [ops EXCEPT ![t] = @ + 1]
    /\ ret' = [ret EXCEPT ![t] = 0]
    /\ fault' = [fault EXCEPT ![t] = "todo"]
    /\ arg' = [arg EXCEPT ![t] = [k |-> k, v |-> v]]
    /\ hist' = [hist EXCEPT !.lastIns[k] = v]
    /\ UNCHANGED <<tableVars, countVars, loc, cloc, thash, fnVars>>

\* --------------------------------------------------------- the specifications

Init ==
    /\ table = Null
    /\ next_table = Null
    /\ size_ctl = W0
    /\ transfer_index = W0
    /\ tabs = <<>>
    /\ base_count = 0
    /\ cells_busy = 0
    /\ counter_cells = NoCells
    /\ pc = [t \in AllThreads |-> "idle"]
    /\ op = [t \in AllThreads |-> "none"]
    /\ ops = [t \in AllThreads |-> 0]
    /\ loc = [t \in AllThreads |-> Loc0]
    /\ cloc = [t \in AllThreads |-> CLoc0]
    /\ ret = [t \in AllThreads |-> 0]
    /\ fault = [t \in AllThreads |-> "none"]
    /\ arg = [t \in AllThreads |-> Arg0]
    /\ thash = [t \in AllThreads |-> 0]
    /\ hist = Hist0
    /\ fin = W0
    /\ fout = <<>>
    /\ fop = "none"

Next ==
    \E t \in Threads :
        \/ InitTableCall(t)
        \/ ItLoad(t)
        \/ ItLoadCtl(t)
        \/ ItCas(t)
        \/ ItRecheck(t)
        \/ ItAllocOk(t)
        \/ ItAllocFail(t)
        \/ ItStore(t)
        \/ ItRet(t)
        \/ \E size \in Sizes : TryPresizeCall(t, size)
        \/ TpLoop(t)
        \/ TpTab(t)
        \/ TpCasInit(t)
        \/ TpRecheck(t)
        \/ TpAllocOk(t)
        \/ TpAllocFail(t)
        \/ TpStore(t)
        \/ TpCasResize(t)
        \/ TrAllocOk(t)
        \/ TrAllocFail(t)
        \/ TrLoop(t)
        \/ TrCommit1(t)
        \/ TrCommit2(t)
        \/ TrCommit3(t)

\* The table part: init_table, try_presize and the transfer it runs.
Spec == Init /\ [][Next]_vars

\* a step of thread t inside a call of init_table
RunInitTable(t) ==
    \/ ItLoad(t)
    \/ ItLoadCtl(t)
    \/ ItCas(t)
    \/ ItRecheck(t)
    \/ ItAllocOk(t)
    \/ ItAllocFail(t)
    \/ ItStore(t)
    \/ ItRet(t)

\* The table part under fair scheduling of init_table: a thread inside
\* init_table is not suspended for ever.
FairSpec == Spec /\ \A t \in Threads : WF_vars(RunInitTable(t))

\* The counting part: add_count, full_add_count, sum_count and size, started
\* with any hashes of the threads' ids.
InitCount ==
    /\ table = Null
    /\ next_table = Null
    /\ size_ctl = W0
    /\ transfer_index = W0
    /\ tabs = <<>>
    /\ base_count = 0
    /\ cells_busy = 0
    /\ counter_cells = NoCells
    /\ pc = [t \in AllThreads |-> "idle"]
    /\ op = [t \in AllThreads |-> "none"]
    /\ ops = [t \in AllThreads |-> 0]
    /\ loc = [t \in AllThreads |-> Loc0]
    /\ cloc = [t \in AllThreads |-> CLoc0]
    /\ ret = [t \in AllThreads |-> 0]
    /\ fault = [t \in AllThreads |-> "none"]
    /\ arg = [t \in AllThreads |-> Arg0]
    /\ thash \in [AllThreads -> 0..(CellsLen - 1)]
    /\ hist = Hist0
    /\ fin = W0
    /\ fout = <<>>
    /\ fop = "none"

NextCount ==
    \E t \in CountThreads :
        \/ \E x \in Deltas : AddCountCall(t, x)
        \/ AcLoad(t)
        \/ AcBase(t)
        \/ AcCas(t)
        \/ AcCell(t)
        \/ FaLoad(t)
        \/ FaCell(t)
        \/ FaBusy(t)
        \/ FaLock(t)
        \/ FaIn(t)
        \/ FaNewOk(t)
        \/ FaNewFail(t)
        \/ FaInCell(t)
        \/ FaUnlock(t)
        \/ FaBase(t)
        \/ SizeCall(t)
        \/ SzLoad(t)
        \/ SzBase(t)
        \/ SzCell(t)

SpecCount == InitCount /\ [][NextCount]_vars

\* deltas that are not negative
UpDeltas == {1, 2}

NextCountUp ==
    \E t \in CountThreads :
        \/ \E x \in UpDeltas : AddCountCall(t, x)
        \/ AcLoad(t)
        \/ AcBase(t)
        \/ AcCas(t)
        \/ AcCell(t)
        \/ FaLoad(t)
        \/ FaCell(t)
        \/ FaBusy(t)
        \/ FaLock(t)
        \/ FaIn(t)
        \/ FaNewOk(t)
        \/ FaNewFail(t)
        \/ FaInCell(t)
        \/ FaUnlock(t)
        \/ FaBase(t)
        \/ SizeCall(t)
        \/ SzLoad(t)
        \/ SzBase(t)
        \/ SzCell(t)

\* The counting part with add_count called with deltas that are not negative.
SpecCountUp == InitCount /\ [][NextCountUp]_vars

\* The map part: get and insert.
NextMap ==
    \E t \in Threads :
        \/ \E k \in Keys : Get(t, k)
        \/ \E k \in Keys, v \in Vals : Insert(t, k, v)

SpecMap == Init /\ [][NextMap]_vars

\* ---------------------------------------------------------------------
\* table_size_for and spread applied on their own, to arguments over the
\* whole width of a word.

\* usable bits of normal node hash
HASH_BITS == ISIZE_MAX
\* hash for forwarding nodes
MOVED == WMinus1
\* hash for roots of trees
TREEBIN == BitIdx \ {0}
\* hash for transient reservations
RESERVED == BitIdx \ {1}

\* hash ^ (hash >> 32), the mask left out
SpreadUnmasked(hash) == WXor(hash, Shr(hash, 32))

\* HASH_BITS & (hash ^ (hash >> 32)), of the 64-bit hash of the key
spread(hash) == WAnd(HASH_BITS, WXor(hash, Shr(hash, 32)))

\* applications of a function in a row
MaxApply == 2

\* 0, -1, every 2^k, 2^k + 1 and 2^(k+1) - 1, and the words whose upper or
\* lower half is all ones
FnInputs ==
    {W0, WMinus1, 32..(WordBits - 1), 0..31}
        \cup {{k} : k \in BitIdx}
        \cup {{0, k} : k \in BitIdx}
        \cup {0..k : k \in BitIdx}

progVars ==
    <<table, next_table, size_ctl, transfer_index, tabs, base_count,
      cells_busy, counter_cells, pc, op, ops, loc, cloc, ret, fault, arg,
      thash, hist>>

\* the argument of the next application: the input, then the last result
FnArg == IF fout = <<>> THEN fin ELSE fout[Len(fout)]

\* table_size_for(c), and table_size_for of what it returned
ApplyTableSizeFor ==
    /\ fop \in {"none", "table_size_for"}
    /\ Len(fout) < MaxApply
    /\ fout' = Append(fout, table_size_for(FnArg))
    /\ fop' = "table_size_for"
    /\ UNCHANGED <<progVars, fin>>

\* c - 1 with c = 0 in a build that checks overflow: the call panics
ApplyTableSizeForOverflow ==
    /\ fop \in {"none", "table_size_for"}
    /\ Len(fout) < MaxApply
    /\ FnArg = W0
    /\ fop' = "panic"
    /\ UNCHANGED <<progVars, fin, fout>>

\* spread of a key whose hash is fin, and spread of the same key again
ApplySpread ==
    /\ fop \in {"none", "spread"}
    /\ Len(fout) < MaxApply
    /\ fout' = Append(fout, spread(fin))
    /\ fop' = "spread"
    /\ UNCHANGED <<progVars, fin>>

InitFn ==
    /\ table = Null
    /\ next_table = Null
    /\ size_ctl = W0
    /\ transfer_index = W0
    /\ tabs = <<>>
    /\ base_count = 0
    /\ cells_busy = 0
    /\ counter_cells = NoCells
    /\ pc = [t \in AllThreads |-> "idle"]
    /\ op = [t \in AllThreads |-> "none"]
    /\ ops = [t \in AllThreads |-> 0]
    /\ loc = [t \in AllThreads |-> Loc0]
    /\ cloc = [t \in AllThreads |-> CLoc0]
    /\ ret = [t \in AllThreads |-> 0]
    /\ fault = [t \in AllThreads |-> "none"]
    /\ arg = [t \in AllThreads |-> Arg0]
    /\ thash = [t \in AllThreads |-> 0]
    /\ hist = Hist0
    /\ fin \in FnInputs
    /\ fout = <<>>
    /\ fop = "none"

\* resize_stamp(n) of a length n
ApplyResizeStamp ==
    /\ fop = "none"
    /\ fout' = <<resize_stamp(fin)>>
    /\ fop' = "resize_stamp"
    /\ UNCHANGED <<progVars, fin>>

NextFn ==
    \/ ApplyTableSizeFor
    \/ ApplyTableSizeForOverflow
    \/ ApplySpread
    \/ ApplyResizeStamp

\* The functions on their own, each applied to any of the inputs.
SpecFn == InitFn /\ [][NextFn]_vars

\* ------------------------------------------------------------------- claims

\* C1: in a single-threaded run, a get(k) that follows insert(k, v) calls
\* returns the value of the most recent insert(k, .).
GetReturnsLastInsert ==
    \A t \in Threads :
        (/\ op[t] = "get"
         /\ pc[t] # "idle"
         /\ Rest(t)
         /\ \A u \in Threads \ {t} : ops[u] = 0
         /\ hist.lastIns[arg[t].k] # 0)
        => (pc[t] = "done" /\ ret[t] = hist.lastIns[arg[t].k])

\* C2: no call ends in a panic, save for a failed allocation of memory.
OnlyAllocationPanics ==
    \A t \in Threads : pc[t] = "panic" => fault[t] = "alloc"

\* C3: when every add_count call has ended, base_count plus the cells is the
\* sum of the deltas of the calls that returned, whichever way each call took:
\* no delta is lost and none is applied twice.
QuiescentSumIsExact ==
    (\A t \in CountThreads : Rest(t)) => RawSum = hist.applied

\* C3: every call has ended, one delta is in base_count and one in a cell of
\* the installed array.
QuiescentBaseAndCells ==
    /\ \A t \in CountThreads : Rest(t)
    /\ base_count # 0
    /\ counter_cells # NoCells
    /\ \E i \in 1..Len(counter_cells) : counter_cells[i] # 0
    /\ hist.installs = 1

\* C4: size never returns a negative number; a size call that no write to the
\* counter overlapped or followed returned 0 when base_count plus the cells is
\* below zero and that sum otherwise.
SizeIsClampedSum ==
    \A t \in CountThreads :
        (op[t] = "size" /\ pc[t] = "done")
        => /\ ret[t] >= 0
           /\ ~cloc[t].stale => ret[t] = (IF RawSum < 0 THEN 0 ELSE RawSum)

\* C4: a size call has returned 0, the sum being below zero and spread over
\* base_count and the cells.
SizeOfNegativeSum ==
    \E t \in CountThreads :
        /\ op[t] = "size"
        /\ pc[t] = "done"
        /\ ~cloc[t].stale
        /\ counter_cells # NoCells
        /\ RawSum < 0
        /\ ret[t] = 0

\* C5, as the code has it: at most one thread ever allocates and publishes a
\* first table; an init_table call returns a table that was published, the
\* first one as long as no resize has committed; the first table has length
\* 16 or the positive control word when init_table made it, and the larger of
\* the control word and c when try_presize made it; and the thread that made
\* it stores n - (n >> 2) to size_ctl as its next step.
SingleWinnerInit ==
    /\ [](/\ hist.created <= 1
          /\ \A t \in Threads :
                (op[t] = "init_table" /\ pc[t] = "done")
                => /\ ret[t] \in hist.pub
                   /\ hist.commits = 0 => ret[t] = hist.firstTab
          /\ hist.firstTab # Null =>
                tabs[hist.firstTab].len =
                    (IF hist.firstBy = "init_table"
                     THEN IF SLt(W0, hist.firstCtl) THEN hist.firstCtl
                          ELSE Bits(DEFAULT_CAPACITY)
                     ELSE IF ULt(hist.firstC, hist.firstCtl) THEN hist.firstCtl
                          ELSE hist.firstC))
    /\ [][\A t \in Threads :
            (pc[t] \in {"it_store", "tp_store"} /\ pc'[t] # pc[t])
            => /\ table # Null
               /\ loc[t].n = tabs[hist.firstTab].len
               /\ size_ctl' = WSub(loc[t].n, Shr(loc[t].n, 2))]_vars

\* C5: two init_table calls have returned the first table, which one of them
\* made, and the control word is its threshold.
TwoCallsOneTable ==
    /\ hist.created = 1
    /\ hist.commits = 0
    /\ hist.firstBy = "init_table"
    /\ \E t, u \in Threads :
          /\ t # u
          /\ op[t] = "init_table" /\ pc[t] = "done" /\ ret[t] = hist.firstTab
          /\ op[u] = "init_table" /\ pc[u] = "done" /\ ret[u] = hist.firstTab
    /\ size_ctl = Bits(12)

\* C5, as stated: one thread publishes a table, every init_table call returns
\* that table, and its length is the positive control word, or 16 when the
\* control word is 0.
InitTableLengthFromCtl ==
    /\ hist.created <= 1
    /\ \A t \in Threads :
          (op[t] = "init_table" /\ pc[t] = "done") => ret[t] = hist.firstTab
    /\ hist.firstTab # Null =>
          tabs[hist.firstTab].len =
              (IF SLt(W0, hist.firstCtl) THEN hist.firstCtl
               ELSE Bits(DEFAULT_CAPACITY))

\* C6: size_ctl is -1 only while a thread is between its compare_exchange to
\* -1 and its following store to size_ctl.
MinusOneOnlyWhileCreating ==
    size_ctl = WMinus1 =>
        \E t \in Threads :
            pc[t] \in {"it_recheck", "it_alloc", "it_store",
                       "tp_recheck", "tp_alloc", "tp_store"}

\* C7: when the first table cannot be allocated, in init_table or in
\* try_presize, size_ctl gets back the value the compare_exchange replaced by
\* -1, the table stays null and the call panics with the failure; and while
\* the table is null, size_ctl is -1 only as long as a thread is creating the
\* table, so that a later call can create it.
InitAllocFailureRestores ==
    /\ [][\A t \in Threads :
            (pc[t] \in {"it_alloc", "tp_alloc"} /\ pc'[t] = "panic")
            => /\ size_ctl' = loc[t].pre
               /\ ~IsNeg(size_ctl')
               /\ table = Null /\ table' = Null
               /\ fault'[t] = "alloc"]_vars
    /\ []((table = Null /\ size_ctl = WMinus1)
          => \E t \in Threads :
                pc[t] \in {"it_recheck", "it_alloc", "tp_recheck", "tp_alloc"})

\* C7: an init_table call has panicked on the allocation and a later
\* init_table call has created the table.
CreatedAfterAllocFailure ==
    /\ \E t \in Threads :
          pc[t] = "panic" /\ fault[t] = "alloc" /\ op[t] = "init_table"
    /\ hist.firstBy = "init_table"
    /\ table # Null

\* C8, as the code has it: when the next table cannot be allocated, transfer
\* stores isize::MAX to size_ctl, leaves table and next_table as they are and
\* panics with the failure; a try_presize that then reads isize::MAX returns
\* without a resize.
TransferAllocFailureStoresMax ==
    [][\A t \in Threads :
          /\ (pc[t] = "tr_alloc" /\ pc'[t] = "panic")
             => /\ size_ctl' = ISIZE_MAX
                /\ fault'[t] = "alloc"
                /\ table' = table /\ next_table' = next_table
          /\ (/\ pc[t] = "tp_tab" /\ pc'[t] # pc[t]
              /\ loc[t].sc = ISIZE_MAX /\ table # Null)
             => pc'[t] = "done"]_vars

\* C8: a try_presize call has panicked in transfer and left isize::MAX; a
\* later try_presize call has returned.
ResizeGivenUp ==
    /\ size_ctl = ISIZE_MAX
    /\ table # Null
    /\ \E t, u \in Threads :
          /\ pc[t] = "panic" /\ fault[t] = "alloc" /\ op[t] = "try_presize"
          /\ u # t /\ pc[u] = "done" /\ op[u] = "try_presize"

\* C8, as stated: when the next table cannot be allocated, size_ctl gets back
\* the value it had before the resize was started.
TransferAllocFailureRollsBack ==
    [][\A t \in Threads :
          (pc[t] = "tr_alloc" /\ pc'[t] = "panic") => size_ctl' = loc[t].pre]_vars

\* C9: the published table and the next table, when there is one, have a
\* length that is a power of two and at most MAXIMUM_CAPACITY.
TableLengthsArePowersOfTwo ==
    \A p \in {table, next_table} \ {Null} :
        /\ Cardinality(tabs[p].len) = 1
        /\ ULe(tabs[p].len, MAXIMUM_CAPACITY)

\* C10: the next table transfer works with has twice the length of the table
\* it replaces.
ResizeDoubles ==
    \A t \in Threads :
        pc[t] \in {"tr_loop", "tr_commit1", "tr_commit2", "tr_commit3"}
        => tabs[loc[t].nt].len = Shl(tabs[loc[t].tab].len, 1)

\* C11: when transfer publishes the next table as the table, every bucket of
\* the old table holds a forwarding node.
CommitAfterWholeTable ==
    \A t \in Threads :
        pc[t] = "tr_commit3"
        => Bits(Cardinality(tabs[loc[t].tab].fwd)) = tabs[loc[t].tab].len

\* C12: when a resize commits, size_ctl becomes the threshold of the table
\* just published, its length less a quarter of it.
CommitStoresThresholdOfNewTable ==
    [][\A t \in Threads :
          (pc[t] = "tr_commit3" /\ pc'[t] # pc[t])
          => size_ctl' = WSub(tabs[table].len, Shr(tabs[table].len, 2))]_vars

\* C13: next_table is non-null only while a resize is in progress: then
\* size_ctl is below -1 and a thread is inside transfer, working with that
\* next table; when no thread is inside transfer, next_table is null.
NextTableOnlyDuringResize ==
    /\ next_table # Null =>
          /\ SLt(size_ctl, WMinus1)
          /\ \E t \in Threads :
                pc[t] \in {"tr_loop", "tr_commit1"} /\ loc[t].nt = next_table
    /\ (\A t \in Threads :
           pc[t] \notin {"tr_alloc", "tr_loop", "tr_commit1", "tr_commit2",
                         "tr_commit3"})
       => next_table = Null

\* C13: a resize is in progress, its next table stored in next_table.
NextTableStored ==
    /\ next_table # Null
    /\ table # Null
    /\ next_table # table
    /\ \E t \in Threads : pc[t] = "tr_loop" /\ op[t] = "try_presize"

\* exactly one bit set
IsPow2(w) == Cardinality(w) = 1

\* r is the smallest power of two that is at least c
CeilPow2(c, r) ==
    /\ IsPow2(r)
    /\ ULe(c, r)
    /\ r = W1 \/ ULt(Shr(r, 1), c)

\* C14: table_size_for(c) is the smallest power of two that is at least c,
\* MAXIMUM_CAPACITY when c is above it, and applying it to its own result
\* changes nothing.
TableSizeForIsCeilPow2 ==
    fop = "table_size_for" =>
        /\ IF ULt(MAXIMUM_CAPACITY, fin)
              THEN fout[1] = MAXIMUM_CAPACITY
              ELSE CeilPow2(fin, fout[1])
        /\ Len(fout) = 2 => fout[2] = fout[1]

\* C20: spread returns a word whose top bit is clear, which is none of
\* MOVED, TREEBIN and RESERVED, and the same word each time for one hash.
SpreadIsNeverSentinel ==
    fop = "spread" =>
        \A i \in 1..Len(fout) :
            /\ (WordBits - 1) \notin fout[i]
            /\ fout[i] \notin {MOVED, TREEBIN, RESERVED}
            /\ fout[i] = fout[1]

\* C20: spread was applied twice to a hash whose halves xor to all ones, the
\* word that is MOVED before the mask.
SpreadOfAllOnes ==
    /\ fop = "spread"
    /\ Len(fout) = MaxApply
    /\ WXor(fin, Shr(fin, 32)) = MOVED

\* no other thread has called anything
Alone(t) == \A u \in Threads \ {t} : ops[u] = 0

\* C15: a try_presize call running alone on an existing table returns after
\* finitely many steps: no round of its loop that resizes comes back to the
\* head of the loop with the size_ctl and the table length the round began
\* with, from where the same round would follow again, for ever.
PresizeRoundMakesProgress ==
    [][\A t \in Threads :
          (pc[t] = "tr_commit3" /\ pc'[t] = "tp_loop" /\ Alone(t))
          => ~(size_ctl' = loc[t].sc /\ tabs[table].len = loc[t].n)]_vars

\* thread t is inside a call of init_table
InInitTable(t) == op[t] = "init_table" /\ ~Rest(t)

\* thread t goes round init_table's loop after it read size_ctl < 0
Spins(t) == pc[t] = "it_sc" /\ pc'[t] = "it_load"

\* a try_presize call that won the compare_exchange to -1 on a null table
\* has not stored its table yet
PresizeCreating == \E u \in Threads : pc[u] \in {"tp_recheck", "tp_alloc"}

\* C16: under fair scheduling every call of init_table ends, with a table
\* that is not null or with the panic of a failed allocation, unless a
\* try_presize call that won the compare_exchange to -1 never finishes; and
\* a thread spins only when the size_ctl it reads is negative.
InitTableSpinIsBounded ==
    /\ \A t \in Threads :
          (InInitTable(t) ~> Rest(t)) \/ <>[]PresizeCreating
    /\ [](\A t \in Threads :
             (op[t] = "init_table" /\ pc[t] = "done") => ret[t] # Null)
    /\ [][\A t \in Threads : Spins(t) => IsNeg(size_ctl)]_vars

\* C16: a thread has spun in init_table, having read size_ctl = -1, while
\* another thread that won the compare_exchange is creating the table.
SpinningBehindWinner ==
    \E t, u \in Threads :
        /\ InInitTable(t)
        /\ pc[t] = "it_load"
        /\ loc[t].sc = WMinus1
        /\ InInitTable(u)
        /\ pc[u] \in {"it_recheck", "it_alloc", "it_store"}

\* C16: a thread spins in init_table only in states where size_ctl < 0 and
\* the table is still null.
SpinsOnlyWhileTableNull ==
    [][\A t \in Threads : Spins(t) => (IsNeg(size_ctl) /\ table = Null)]_vars

\* thread t is inside transfer
InTransfer(t) ==
    pc[t] \in {"tr_alloc", "tr_loop", "tr_commit1", "tr_commit2", "tr_commit3"}

\* the bits of size_ctl below the stamp, and the bits of a stamp
CountBits == 0..(RESIZE_STAMP_SHIFT - 1)
StampBits == 0..(RESIZE_STAMP_BITS - 1)

StridesCover(claims, n) ==
    /\ Len(claims) >= 1
    /\ claims[1][2] = n
    /\ claims[Len(claims)][1] = W0
    /\ \A k \in 1..Len(claims) :
          /\ ULt(claims[k][1], claims[k][2])
          /\ k > 1 => claims[k][2] = claims[k - 1][1]
          /\ \/ claims[k][1] = W0
             \/ ULe(Bits(MIN_TRANSFER_STRIDE), WSub(claims[k][2], claims[k][1]))

\* C18: when a resize commits, every bucket index of the old table has been
\* handed out from transfer_index in exactly one stride, the strides taken
\* highest first and of 16 indices at least or the rest of the table.
CommitAfterStridesClaimed ==
    \A t \in Threads :
        pc[t] = "tr_commit1"
        => StridesCover(tabs[loc[t].tab].claims, tabs[loc[t].tab].len)

\* thread t's call of try_presize returns with this step, every other thread
\* being between two calls
PresizeReturnsAtRest(t) ==
    /\ op[t] = "try_presize"
    /\ ~Rest(t)
    /\ pc'[t] = "done"
    /\ \A u \in Threads \ {t} : Rest(u)

\* C19: when try_presize(size) returns and no other thread is running, the
\* table exists and size_ctl >= size or the table's length is
\* MAXIMUM_CAPACITY; the table it creates when there is none has the length
\* max(size_ctl, c), c being the target capacity of size.
PresizeReturnsSized ==
    [][\A t \in Threads :
          /\ PresizeReturnsAtRest(t) =>
                /\ table' # Null
                /\ \/ SLe(loc[t].size, size_ctl')
                   \/ tabs'[table'].len = MAXIMUM_CAPACITY
          /\ (pc[t] = "tp_alloc" /\ pc'[t] = "tp_store") =>
                tabs'[table'].len
                    = IF ULt(PresizeTarget(loc[t].size), loc[t].pre)
                      THEN loc[t].pre
                      ELSE PresizeTarget(loc[t].size)]_vars

\* C21: the cell array is installed at most once and never replaced; it has
\* table_size_for(NCPU) cells, a power of two, and at its installation slot 0
\* holds the delta of the installing call and every other slot 0.
CellsInstalledOnce ==
    /\ [](/\ hist.installs <= 1
          /\ counter_cells # NoCells =>
                /\ Len(counter_cells) = Val(table_size_for(Bits(NCPU)))
                /\ \E k \in 0..30 : Len(counter_cells) = Pow2(k))
    /\ [][/\ counter_cells # NoCells =>
                /\ hist'.installs = hist.installs
                /\ Len(counter_cells') = Len(counter_cells)
          /\ (counter_cells = NoCells /\ counter_cells' # NoCells) =>
                \E t \in CountThreads :
                    /\ pc[t] = "fa_new"
                    /\ pc'[t] # pc[t]
                    /\ counter_cells'[1] = cloc[t].x
                    /\ \A i \in 2..Len(counter_cells') : counter_cells'[i] = 0
         ]_vars

\* C21: the cell array is installed and a second call that had found none
\* holds cells_busy, about to add to a cell of the array it finds.
SecondInstallerFindsCells ==
    /\ hist.installs = 1
    /\ \E t \in CountThreads : pc[t] = "fa_in_cell"

\* thread t is inside the section of full_add_count that cells_busy guards
InCellsSection(t) == pc[t] \in {"fa_in", "fa_new", "fa_in_cell", "fa_unlock"}

\* C22: cells_busy is 1 exactly while one thread is inside the guarded
\* section of full_add_count, never two, and 0 again after every exit of it,
\* that of a failed allocation included; a thread that finds it taken goes
\* on at once to base_count.fetch_add(x) and returns.
CellsBusyIsMutex ==
    /\ [](/\ Cardinality({t \in CountThreads : InCellsSection(t)}) <= 1
          /\ cells_busy = (IF \E t \in CountThreads : InCellsSection(t)
                           THEN 1 ELSE 0))
    /\ [][\A t \in CountThreads :
             /\ (pc[t] \in {"fa_busy", "fa_lock"} /\ cells_busy = 1
                    /\ pc'[t] # pc[t])
                => pc'[t] = "fa_base"
             /\ (pc[t] = "fa_base" /\ pc'[t] # pc[t])
                => /\ base_count' = base_count + cloc[t].x
                   /\ pc'[t] = "done"
         ]_vars

\* C22: a thread leaves the guarded section after its allocation failed
\* while another thread, which found cells_busy taken, is about to add its
\* delta to base_count.
FailedInstallBesideBaseAdd ==
    \E t, u \in CountThreads :
        /\ pc[t] = "fa_unlock"
        /\ cloc[t].failed
        /\ pc[u] = "fa_base"

\* C23: a thread that wins the compare_exchange starting a resize in
\* try_presize enters transfer with the table published at that moment, and
\* the table its commit replaces is that table.
ResizeRunsOnPublishedTable ==
    [][\A t \in Threads :
          /\ (pc[t] = "tp_cas_resize" /\ pc'[t] = "tr_alloc")
             => loc[t].tab = table
          /\ (pc[t] = "tr_commit2" /\ pc'[t] = "tr_commit3")
             => loc[t].tab = table
      ]_vars

\* thread t's size call returns with this step
SizeReturns(t) ==
    /\ op[t] = "size"
    /\ pc[t] \in {"sz_base", "sz_cell"}
    /\ pc'[t] = "done"

\* C24: with deltas that are not negative, what sum_count returns is at
\* least the sum of the deltas of the add_count calls that had returned when
\* it started and at most the sum of the deltas of the add_count calls made
\* when it returns.
SumCountBetweenDoneAndStarted ==
    [][\A t \in CountThreads :
          SizeReturns(t) =>
              /\ cloc[t].lo <= ret'[t]
              /\ ret'[t] <= hist.started]_vars

\* C24: a size call has returned that read counter_cells as null and then
\* base_count, the cell array being installed by now; it counted a call that
\* returned after it started and missed a delta of a call made before it
\* returned.
SumCountAcrossInstall ==
    \E t \in CountThreads :
        /\ op[t] = "size"
        /\ pc[t] = "done"
        /\ ~cloc[t].seen
        /\ hist.installs = 1
        /\ cloc[t].lo < ret[t]
        /\ ret[t] < hist.started

\* a table length: a power of two from 1 to MAXIMUM_CAPACITY
ValidLen(n) == IsPow2(n) /\ ULe(n, MAXIMUM_CAPACITY)

\* C25: for a valid table length n, resize_stamp(n) << RESIZE_STAMP_SHIFT is
\* negative and stays below -1 with 2 added, resize_stamp(n) is
\* number_of_leading_zeros(n) with bit RESIZE_STAMP_BITS - 1 set, and no
\* other valid table length has the same stamp.
ResizeStampIdentifiesLength ==
    (fop = "resize_stamp" /\ ValidLen(fin)) =>
        /\ IsNeg(Shl(fout[1], RESIZE_STAMP_SHIFT))
        /\ SLt(WAdd(Shl(fout[1], RESIZE_STAMP_SHIFT), Bits(2)), WMinus1)
        /\ fout[1] = WOr(number_of_leading_zeros(fin),
                         {RESIZE_STAMP_BITS - 1})
        /\ \A k \in BitIdx :
              (ValidLen({k}) /\ {k} # fin) => resize_stamp({k}) # fout[1]

====
